---- MODULE Spec2Model ----
(***************************************************************************)
(* Model of src/app.ts: the retryAsync helper and the POST /checkout       *)
(* handler of the braintree relay.  A step of the model is what the event  *)
(* loop runs between two suspension points (an awaited remote call or an   *)
(* awaited timer): JavaScript runs that code without interleaving.         *)
(***************************************************************************)
EXTENDS Integers, Sequences, FiniteSets, TLC

(***************************************************************************)
(* Bounds of the model and constants of the program.                       *)
(***************************************************************************)
\* number of checkout requests served concurrently
NumReqs == 2
\* largest attempt count the retry harness passes to retryAsync
MaxN == 3
\* retryAsync's default delay, "delay = 1000"
DefaultDelay == 1000
\* the attempt count both handlers pass to retryAsync
CheckoutRetries == 3

Reqs == 1..NumReqs

\* JavaScript's undefined, for string-valued things
Undefined == "undefined"

(***************************************************************************)
(* Errors a remote call can reject with.  An error is an object; its       *)
(* .message is read by the handlers.                                       *)
(***************************************************************************)
Errors == {"TimeoutError", "ResetError"}
\* the error createDocument rejects with
DbErrors == {"AppwriteException"}

TypeErrorStatus == "TypeError"

Message(e) ==
  CASE e = "TimeoutError" -> "connect ETIMEDOUT"
    [] e = "ResetError" -> "socket hang up"
    [] e = "AppwriteException" -> "Server Error"
    [] e = "TypeError" -> "Cannot read properties of undefined (reading 'status')"
    [] OTHER -> Undefined

(***************************************************************************)
(* retryAsync(fn, retries, delay).  A frame is the activation record of    *)
(* one call: the parameters, the locals i and lastError, and where the     *)
(* call is suspended:                                                      *)
(*   "await_fn"     fn() was invoked, its promise is pending               *)
(*   "await_delay"  the setTimeout(delay) promise is pending               *)
(*   "returned"     the call returned value                                *)
(*   "thrown"       the call threw value                                   *)
(***************************************************************************)
IdleFrame ==
  [retries |-> 0, delay |-> 0, i |-> 0, lastError |-> Undefined,
   pc |-> "idle", value |-> Undefined]

\* the loop head "i < retries": invoke fn again, or fall out to "throw lastError"
RetryLoop(f) ==
  IF f.i < f.retries
    THEN [f EXCEPT !.pc = "await_fn"]
    ELSE [f EXCEPT !.pc = "thrown", !.value = f.lastError]

\* a retryAsync that refuses retries < 1 as invalid input
RetryStart_Guard(retries, delay) ==
  LET f == [retries |-> retries, delay |-> delay, i |-> 0,
            lastError |-> Undefined, pc |-> "start", value |-> Undefined]
  IN  IF retries < 1
        THEN [f EXCEPT !.pc = "thrown", !.value = "RangeError"]
        ELSE RetryLoop(f)

\* the call itself, up to its first suspension
RetryStart(retries, delay) ==
  RetryLoop([retries |-> retries, delay |-> delay, i |-> 0,
             lastError |-> Undefined, pc |-> "start", value |-> Undefined])

\* fn()'s promise resolves with v: "return await fn()"
RetryResolve(f, v) ==
  [f EXCEPT !.pc = "returned", !.value = v]

\* a retryAsync that never waits between attempts
RetryReject_NoDelay(f, e) ==
  RetryLoop([f EXCEPT !.lastError = e, !.i = f.i + 1])

\* a retryAsync that keeps the first error instead of the last
RetryReject_FirstError(f, e) ==
  LET g == [f EXCEPT !.lastError = IF f.lastError = Undefined THEN e ELSE f.lastError]
  IN  IF g.i < g.retries - 1
        THEN [g EXCEPT !.pc = "await_delay"]
        ELSE RetryLoop([g EXCEPT !.i = g.i + 1])

\* fn()'s promise rejects with e: the catch block, then i++ and the loop head
\* unless the timer is awaited first
RetryReject(f, e) ==
  LET g == [f EXCEPT !.lastError = e]
  IN  IF g.i < g.retries - 1
        THEN [g EXCEPT !.pc = "await_delay"]
        ELSE RetryLoop([g EXCEPT !.i = g.i + 1])

\* the timer fires: i++ and the loop head
RetryTimer(f) ==
  RetryLoop([f EXCEPT !.i = f.i + 1])

(***************************************************************************)
(* POST /checkout: the request body.  A field is undefined (absent), a     *)
(* falsy value ("" or 0) or a truthy value.                                *)
(***************************************************************************)
Required ==
  {"name", "email", "shippingAddress", "orderDetails", "payment_method_nonce", "amount"}
Optional == {"phone", "billingAddress", "deviceData"}
Fields == Required \cup Optional

Falsy == ""
Truthy(x) == x # Undefined /\ x # Falsy

\* the payment method nonce is a single-use token: each request brings its own
Nonce(r) == ToString(r)

FullBody(r) == [f \in Fields |-> IF f = "payment_method_nonce" THEN Nonce(r) ELSE "v"]
EmptyBody == [f \in Fields |-> Undefined]

\* the bodies request r is drawn from: a complete one, every body that lacks
\* one required field or has it falsy, and the empty body
Bodies(r) ==
  {FullBody(r), EmptyBody}
    \cup {[FullBody(r) EXCEPT ![f] = x] : f \in Required, x \in {Undefined, Falsy}}

\* a validation that forgets the amount
MissingFields_NoAmount(b) ==
  \/ ~Truthy(b.name)
  \/ ~Truthy(b.email)
  \/ ~Truthy(b.shippingAddress)
  \/ ~Truthy(b.orderDetails)
  \/ ~Truthy(b.payment_method_nonce)

\* "!name || !email || !shippingAddress || !orderDetails || !payment_method_nonce || !amount"
MissingFields(b) ==
  \/ ~Truthy(b.name)
  \/ ~Truthy(b.email)
  \/ ~Truthy(b.shippingAddress)
  \/ ~Truthy(b.orderDetails)
  \/ ~Truthy(b.payment_method_nonce)
  \/ ~Truthy(b.amount)

(***************************************************************************)
(* The payment gateway: the sale call and the ways its promise settles.    *)
(* A successful result carries its transaction; a result that is not a     *)
(* success need not carry one (the handler itself reads                    *)
(* result.transaction?.id).                                                *)
(***************************************************************************)
SaleCall(b) ==
  [op |-> "sale", amount |-> b.amount, paymentMethodNonce |-> b.payment_method_nonce,
   deviceData |-> b.deviceData, submitForSettlement |-> TRUE]

NoTransaction == [present |-> FALSE, id |-> Undefined, status |-> Undefined]
Transaction(id, status) == [present |-> TRUE, id |-> id, status |-> status]

Pending == [kind |-> "pending"]
Resolved(success, tx) == [kind |-> "resolve", success |-> success, transaction |-> tx]
Rejected(e) == [kind |-> "reject", error |-> e]

ChargeOutcomes ==
  {Resolved(TRUE, Transaction("TX1", "submitted_for_settlement")),
   Resolved(FALSE, Transaction("TX2", "processor_declined")),
   Resolved(FALSE, NoTransaction)}
    \cup {Rejected(e) : e \in Errors}

\* "result.transaction?.id"
TransactionId(result) ==
  IF result.transaction.present THEN result.transaction.id ELSE Undefined

(***************************************************************************)
(* generateOrderId.  Date.now() is a number of milliseconds; Math.random() *)
(* is given by the digits of its base-36 fraction, which toString(36)      *)
(* prints after "0.".                                                      *)
(***************************************************************************)
Digits36 ==
  <<"0", "1", "2", "3", "4", "5", "6", "7", "8", "9", "a", "b", "c", "d", "e", "f",
    "g", "h", "i", "j", "k", "l", "m", "n", "o", "p", "q", "r", "s", "t", "u", "v",
    "w", "x", "y", "z">>
Upper36 ==
  <<"0", "1", "2", "3", "4", "5", "6", "7", "8", "9", "A", "B", "C", "D", "E", "F",
    "G", "H", "I", "J", "K", "L", "M", "N", "O", "P", "Q", "R", "S", "T", "U", "V",
    "W", "X", "Y", "Z">>

RECURSIVE ToString36(_)
\* Number.prototype.toString(36) of a non-negative integer
ToString36(n) ==
  IF n < 36 THEN <<Digits36[n + 1]>>
  ELSE ToString36(n \div 36) \o <<Digits36[(n % 36) + 1]>>

\* Math.random().toString(36): "0", or "0." and the digits of the fraction
RandomToString36(frac) ==
  IF frac = <<>> THEN <<"0">>
  ELSE <<"0", ".">> \o [j \in 1..Len(frac) |-> Digits36[frac[j] + 1]]

Min(a, b) == IF a < b THEN a ELSE b

\* String.prototype.slice(from, to), indices from 0, to excluded
Slice(s, from, to) ==
  IF from >= Min(to, Len(s)) THEN <<>> ELSE SubSeq(s, from + 1, Min(to, Len(s)))

UpperChar(c) ==
  IF \E j \in 1..36 : Digits36[j] = c
    THEN Upper36[CHOOSE j \in 1..36 : Digits36[j] = c]
    ELSE c

\* String.prototype.toUpperCase
ToUpperCase(s) == [j \in 1..Len(s) |-> UpperChar(s[j])]

\* an order id made of the random part alone
generateOrderId_NoTimestamp(now, frac) ==
  ToUpperCase(Slice(RandomToString36(frac), 2, 7))

generateOrderId(now, frac) ==
  LET timestamp == ToString36(now)
      randomStr == Slice(RandomToString36(frac), 2, 7)
  IN  ToUpperCase(timestamp \o <<"-">> \o randomStr)

\* readings of the clock and draws of Math.random(); Date.now() and new Date()
\* are read in the same synchronous block and get the same millisecond
Times == {35, 36}
Rands == {<<18>>, <<1, 2, 3, 4, 5, 6, 7>>}

\* new Date(t).toISOString()
ToISOString(t) == <<"iso", t>>

\* the order record of lines 82-93
BuildOrder(b, orderId, creationTime, result) ==
  [name |-> b.name, email |-> b.email, phone |-> b.phone,
   shippingAddress |-> b.shippingAddress, billingAddress |-> b.billingAddress,
   orderId |-> orderId, orderDetails |-> b.orderDetails,
   creationTime |-> creationTime, status |-> "Pending",
   transactionId |-> TransactionId(result)]

\* a createDocument call that lets the store pick the document id
CreateDocumentCall_StoreId(orderId, order) ==
  [op |-> "createDocument", documentId |-> <<"unique()">>, data |-> order]

\* database.createDocument(databaseId, collectionId, orderId, order)
CreateDocumentCall(orderId, order) ==
  [op |-> "createDocument", documentId |-> orderId, data |-> order]

(***************************************************************************)
(* The responses.  res.json serialises with JSON.stringify, which leaves   *)
(* out a key whose value is undefined.                                     *)
(***************************************************************************)
Json(obj, key, value) ==
  IF value = Undefined THEN obj ELSE obj @@ (key :> value)

Response(status, body) == [status |-> status, body |-> body]

RespMissingFields ==
  Response(400, [ok |-> FALSE, message |-> "Missing required fields"])

RespOk(orderId, transactionId) ==
  Response(200, Json([ok |-> TRUE, orderId |-> orderId], "transactionId", transactionId))

\* a persistence-failure response without the transactionId
RespPersistFailed_NoTransactionId(transactionId) ==
  Response(500,
    [ok |-> FALSE,
     message |-> "Payment processed but order creation failed. Please contact support."])

RespPersistFailed(transactionId) ==
  Response(500,
    Json([ok |-> FALSE,
          message |-> "Payment processed but order creation failed. Please contact support."],
         "transactionId", transactionId))

RespDeclined(status) ==
  Response(400, Json([ok |-> FALSE], "message", status))

\* a charge-error response that hides the error
RespChargeError_Generic(e) ==
  Response(500, [ok |-> FALSE, error |-> "Internal Server Error"])

RespChargeError(e) ==
  Response(500, Json([ok |-> FALSE], "error", Message(e)))

(***************************************************************************)
(* The handler, as what each of its continuations does: the state the      *)
(* request is left in, the responses sent, the gateway calls issued and    *)
(* the errors that leave the handler uncaught.                             *)
(***************************************************************************)
Effect(pc, respond, gateway) ==
  [pc |-> pc, respond |-> respond, gateway |-> gateway, escaped |-> <<>>]

\* lines 62-77: validation, then the sale call
OnRequest(b) ==
  IF MissingFields(b)
    THEN Effect("done", <<RespMissingFields>>, <<>>)
    ELSE Effect("charging", <<>>, <<SaleCall(b)>>)

\* an outer catch that runs the sale once more instead of answering
OnChargeError_Retry(e) ==
  Effect("charging", <<>>, <<[op |-> "sale", retryAfter |-> e]>>)

\* lines 124-126: the outer catch
OnChargeError(e) ==
  Effect("done", <<RespChargeError(e)>>, <<>>)

\* a decline branch outside any try block: the TypeError leaves the handler
OnChargeFailed_Uncaught(result) ==
  IF result.transaction.present
    THEN Effect("done", <<RespDeclined(result.transaction.status)>>, <<>>)
    ELSE [pc |-> "done", respond |-> <<>>, gateway |-> <<>>,
          escaped |-> <<TypeErrorStatus>>]

\* a decline branch that runs the sale once more instead of answering
OnChargeFailed_Retry(result) ==
  Effect("charging", <<>>, <<[op |-> "sale", retryAfter |-> "decline"]>>)

\* lines 119-123: the sale completed without success
OnChargeFailed(result) ==
  IF result.transaction.present
    THEN Effect("done", <<RespDeclined(result.transaction.status)>>, <<>>)
    ELSE OnChargeError(TypeErrorStatus)

\* a dbError catch that refunds the charge
OnPersist_Refund(f, orderId, transactionId) ==
  CASE f.pc = "returned" -> Effect("done", <<RespOk(orderId, transactionId)>>, <<>>)
    [] f.pc = "thrown" ->
         Effect("done", <<RespPersistFailed(transactionId)>>,
                <<[op |-> "refund", transactionId |-> transactionId]>>)
    [] OTHER -> Effect("persisting", <<>>, <<>>)

\* a handler that does not await the createDocument promise before answering
OnPersist_NoAwait(f, orderId, transactionId) ==
  CASE f.pc = "thrown" -> Effect("done", <<RespPersistFailed(transactionId)>>, <<>>)
    [] OTHER -> Effect("done", <<RespOk(orderId, transactionId)>>, <<>>)

\* a dbError catch that swallows the error and never answers
OnPersist_Silent(f, orderId, transactionId) ==
  CASE f.pc = "returned" -> Effect("done", <<RespOk(orderId, transactionId)>>, <<>>)
    [] OTHER -> Effect("persisting", <<>>, <<>>)

\* a dbError catch that goes back to charging the customer
OnPersist_Recharge(f, orderId, transactionId) ==
  CASE f.pc = "returned" -> Effect("done", <<RespOk(orderId, transactionId)>>, <<>>)
    [] f.pc = "thrown" -> Effect("charging", <<>>, <<[op |-> "sale", again |-> TRUE]>>)
    [] OTHER -> Effect("persisting", <<>>, <<>>)

\* lines 104-118: where the persisting request stands once retryAsync has run on
OnPersist(f, orderId, transactionId) ==
  CASE f.pc = "returned" -> Effect("done", <<RespOk(orderId, transactionId)>>, <<>>)
    [] f.pc = "thrown" -> Effect("done", <<RespPersistFailed(transactionId)>>, <<>>)
    [] OTHER -> Effect("persisting", <<>>, <<>>)

(***************************************************************************)
(* GET /client_token: lines 51-59.                                         *)
(***************************************************************************)
\* the responses gateway.clientToken.generate resolves with
TokenResponses == {[clientToken |-> "TOKEN-A"], [clientToken |-> "TOKEN-B"]}

RespToken(response) ==
  Response(200, Json([ok |-> TRUE], "clientToken", response.clientToken))

RespTokenError(err) ==
  Response(500,
    Json([ok |-> FALSE, message |-> "Error generating client token"],
         "error", Message(err)))

TokEffect(pc, respond) == [pc |-> pc, respond |-> respond]

\* a handler that answers 500 at the first failed attempt
OnToken_GiveUp(f) ==
  CASE f.pc = "returned" -> TokEffect("done", <<RespToken(f.value)>>)
    [] f.pc = "await_fn" -> TokEffect("generating", <<>>)
    [] OTHER -> TokEffect("done", <<RespTokenError(f.lastError)>>)

\* where the request stands once retryAsync has run on
OnToken(f) ==
  CASE f.pc = "returned" -> TokEffect("done", <<RespToken(f.value)>>)
    [] f.pc = "thrown" -> TokEffect("done", <<RespTokenError(f.value)>>)
    [] OTHER -> TokEffect("generating", <<>>)

(***************************************************************************)
(* State.                                                                  *)
(***************************************************************************)
VARIABLES
  rw,          \* the frame of a retryAsync call made on its own (the harness)
  rwLog,       \* what that call did: fn invocations, settlements, timers set
  pc,          \* per request: "idle", "charging", "persisting", "done"
  body,        \* per request: req.body
  charge,      \* per request: how the sale call settled (result or error)
  gatewayLog,  \* per request: the calls made to the payment gateway
  orders,      \* per request: the order records built (orderId inside)
  frame,       \* per request: the retryAsync frame around createDocument
  dbLog,       \* per request: createDocument calls and how each settled
  responses,   \* per request: the responses sent
  escaped,     \* per request: errors thrown out of the handler
  idDraws,     \* per request: what generateOrderId read (Date.now(), Math.random())
  store,       \* the documents of the orders collection
  tokPc,       \* per GET /client_token request: "idle", "generating", "done"
  tokFrame,    \* per GET /client_token request: the retryAsync frame
  tokLog,      \* per GET /client_token request: generate calls and settlements
  tokResponses \* per GET /client_token request: the responses sent

rwVars == <<rw, rwLog>>
reqVars ==
  <<pc, body, charge, gatewayLog, orders, frame, dbLog, responses, escaped, idDraws,
    store>>

tokVars == <<tokPc, tokFrame, tokLog, tokResponses>>

vars ==
  <<rw, rwLog, pc, body, charge, gatewayLog, orders, frame, dbLog, responses, escaped,
    idDraws, store, tokPc, tokFrame, tokLog, tokResponses>>

(***************************************************************************)
(* The retry harness: retryAsync called with any attempt count and delay,  *)
(* on an operation whose every attempt the environment lets succeed or     *)
(* fail.                                                                   *)
(***************************************************************************)
Delays == {DefaultDelay, 10, 0}
Values == {"V1", "V2"}

CallEv == [ev |-> "call"]
ResolveEv(v) == [ev |-> "resolve", v |-> v]
RejectEv(e) == [ev |-> "reject", e |-> e]
DelayEv(ms) == [ev |-> "delay", ms |-> ms]

\* the events a step of the frame adds after a settlement or a timer
Invoked(f) == IF f.pc = "await_fn" THEN <<CallEv>> ELSE <<>>
Slept(f) == IF f.pc = "await_delay" THEN <<DelayEv(f.delay)>> ELSE <<>>

RwStart ==
  /\ rw.pc = "idle"
  /\ \E n \in 0..MaxN, d \in Delays :
       /\ rw' = RetryStart(n, d)
       /\ rwLog' = Invoked(rw')
  /\ UNCHANGED <<reqVars, tokVars>>

RwResolve ==
  /\ rw.pc = "await_fn"
  /\ \E v \in Values :
       /\ rw' = RetryResolve(rw, v)
       /\ rwLog' = rwLog \o <<ResolveEv(v)>>
  /\ UNCHANGED <<reqVars, tokVars>>

RwReject ==
  /\ rw.pc = "await_fn"
  /\ \E e \in Errors :
       /\ rw' = RetryReject(rw, e)
       /\ rwLog' = rwLog \o <<RejectEv(e)>> \o Slept(rw') \o Invoked(rw')
  /\ UNCHANGED <<reqVars, tokVars>>

RwTimer ==
  /\ rw.pc = "await_delay"
  /\ rw' = RetryTimer(rw)
  /\ rwLog' = rwLog \o Invoked(rw')
  /\ UNCHANGED <<reqVars, tokVars>>

ReqInit ==
  /\ pc = [r \in Reqs |-> "idle"]
  /\ body = [r \in Reqs |-> EmptyBody]
  /\ charge = [r \in Reqs |-> Pending]
  /\ gatewayLog = [r \in Reqs |-> <<>>]
  /\ orders = [r \in Reqs |-> <<>>]
  /\ frame = [r \in Reqs |-> IdleFrame]
  /\ dbLog = [r \in Reqs |-> <<>>]
  /\ responses = [r \in Reqs |-> <<>>]
  /\ escaped = [r \in Reqs |-> <<>>]
  /\ idDraws = [r \in Reqs |-> <<>>]
  /\ store = {}

RwInit ==
  /\ rw = IdleFrame
  /\ rwLog = <<>>

TokInit ==
  /\ tokPc = [r \in Reqs |-> "idle"]
  /\ tokFrame = [r \in Reqs |-> IdleFrame]
  /\ tokLog = [r \in Reqs |-> <<>>]
  /\ tokResponses = [r \in Reqs |-> <<>>]

RetryInit == RwInit /\ ReqInit /\ TokInit

RetryNext == RwStart \/ RwResolve \/ RwReject \/ RwTimer

SpecRetry == RetryInit /\ [][RetryNext]_vars

(***************************************************************************)
(* POST /checkout, one action per continuation of the handler.             *)
(***************************************************************************)
\* what a continuation leaves behind for request r
Apply(r, eff) ==
  /\ pc' = [pc EXCEPT ![r] = eff.pc]
  /\ responses' = [responses EXCEPT ![r] = @ \o eff.respond]
  /\ gatewayLog' = [gatewayLog EXCEPT ![r] = @ \o eff.gateway]
  /\ escaped' = [escaped EXCEPT ![r] = @ \o eff.escaped]

\* a retry that makes a new document id for each attempt
DbInvoked_FreshId(f, order) ==
  IF f.pc = "await_fn"
    THEN <<CreateDocumentCall(order.orderId \o <<"-", ToString(f.i)>>, order)>>
    ELSE <<>>

\* the createDocument call a step of the frame makes
DbInvoked(f, order) ==
  IF f.pc = "await_fn" THEN <<CreateDocumentCall(order.orderId, order)>> ELSE <<>>

\* the request arrives: lines 61-77
Receive(r) ==
  /\ pc[r] = "idle"
  /\ \E b \in Bodies(r) :
       /\ body' = [body EXCEPT ![r] = b]
       /\ Apply(r, OnRequest(b))
  /\ UNCHANGED <<charge, orders, frame, dbLog, idDraws, store, rwVars, tokVars>>

\* the sale call rejects: lines 124-126
ChargeRejects(r) ==
  /\ pc[r] = "charging"
  /\ \E e \in Errors :
       /\ charge' = [charge EXCEPT ![r] = Rejected(e)]
       /\ Apply(r, OnChargeError(e))
  /\ UNCHANGED <<body, orders, frame, dbLog, idDraws, store, rwVars, tokVars>>

\* the sale call resolves without success: lines 80, 119-123
ChargeFails(r) ==
  /\ pc[r] = "charging"
  /\ \E o \in ChargeOutcomes :
       /\ o.kind = "resolve" /\ ~o.success
       /\ charge' = [charge EXCEPT ![r] = o]
       /\ Apply(r, OnChargeFailed(o))
  /\ UNCHANGED <<body, orders, frame, dbLog, idDraws, store, rwVars, tokVars>>

\* the sale call resolves with success: lines 80-109, up to the first
\* createDocument call
ChargeSucceeds(r) ==
  /\ pc[r] = "charging"
  /\ \E o \in ChargeOutcomes, now \in Times, frac \in Rands :
       /\ o.kind = "resolve" /\ o.success
       /\ LET orderId == generateOrderId(now, frac)
              order == BuildOrder(body[r], orderId, ToISOString(now), o)
              f == RetryStart(CheckoutRetries, DefaultDelay)
          IN  /\ charge' = [charge EXCEPT ![r] = o]
              /\ orders' = [orders EXCEPT ![r] = @ \o <<order>>]
              /\ frame' = [frame EXCEPT ![r] = f]
              /\ dbLog' = [dbLog EXCEPT ![r] = @ \o DbInvoked(f, order)]
              /\ idDraws' = [idDraws EXCEPT ![r] = @ \o <<[now |-> now, frac |-> frac]>>]
              /\ Apply(r, OnPersist(f, orderId, TransactionId(o)))
  /\ UNCHANGED <<body, store, rwVars, tokVars>>

(***************************************************************************)
(* The document store behind createDocument.  A create for an id that is   *)
(* already in the collection is rejected; a create can also take effect    *)
(* in the store while its promise rejects (the answer is lost on the way). *)
(***************************************************************************)
Document(r, call) == [documentId |-> call.documentId, data |-> call.data, owner |-> r]
StoreHas(id) == \E d \in store : d.documentId = id

\* a retryAsync whose attempt counter i is declared outside the function: the
\* calls in flight share it
Persisted_SharedCounter(r, f, settled) ==
  LET order == orders[r][Len(orders[r])]
  IN  /\ frame' = [q \in Reqs |->
                     IF q = r THEN f
                     ELSE IF frame[q].pc \in {"await_fn", "await_delay"}
                       THEN [frame[q] EXCEPT !.i = f.i]
                       ELSE frame[q]]
      /\ dbLog' = [dbLog EXCEPT ![r] = @ \o settled \o DbInvoked(f, order)]
      /\ Apply(r, OnPersist(f, order.orderId, TransactionId(charge[r])))
      /\ UNCHANGED <<body, charge, orders, idDraws, rwVars, tokVars>>

\* what is common to the continuations of the persisting request
Persisted(r, f, settled) ==
  LET order == orders[r][Len(orders[r])]
  IN  /\ frame' = [frame EXCEPT ![r] = f]
      /\ dbLog' = [dbLog EXCEPT ![r] = @ \o settled \o DbInvoked(f, order)]
      /\ Apply(r, OnPersist(f, order.orderId, TransactionId(charge[r])))
      /\ UNCHANGED <<body, charge, orders, idDraws, rwVars, tokVars>>

\* the createDocument call of request r that is pending
PendingCall(r) == dbLog[r][Len(dbLog[r])]

\* createDocument resolves: lines 104-111
PersistResolves(r) ==
  /\ pc[r] = "persisting"
  /\ frame[r].pc = "await_fn"
  /\ ~StoreHas(PendingCall(r).documentId)
  /\ store' = store \cup {Document(r, PendingCall(r))}
  /\ Persisted(r, RetryResolve(frame[r], "document"), <<ResolveEv("document")>>)

\* createDocument rejects: the catch of retryAsync, then lines 112-118 if it
\* was the last attempt
PersistRejects(r) ==
  /\ pc[r] = "persisting"
  /\ frame[r].pc = "await_fn"
  /\ UNCHANGED store
  /\ \E e \in DbErrors : Persisted(r, RetryReject(frame[r], e), <<RejectEv(e)>>)

\* createDocument took effect in the store, but its promise rejects
PersistLost(r) ==
  /\ pc[r] = "persisting"
  /\ frame[r].pc = "await_fn"
  /\ ~StoreHas(PendingCall(r).documentId)
  /\ store' = store \cup {Document(r, PendingCall(r))}
  /\ \E e \in DbErrors : Persisted(r, RetryReject(frame[r], e), <<RejectEv(e)>>)

\* the delay between two createDocument attempts has elapsed
PersistTimer(r) ==
  /\ pc[r] = "persisting"
  /\ frame[r].pc = "await_delay"
  /\ UNCHANGED store
  /\ Persisted(r, RetryTimer(frame[r]), <<>>)

Init == RwInit /\ ReqInit /\ TokInit

\* a step of request r
ReqStep(r) ==
  \/ Receive(r)
  \/ ChargeRejects(r)
  \/ ChargeFails(r)
  \/ ChargeSucceeds(r)
  \/ PersistResolves(r)
  \/ PersistRejects(r)
  \/ PersistLost(r)
  \/ PersistTimer(r)

Next == \E r \in Reqs : ReqStep(r)

Spec == Init /\ [][Next]_vars

\* the remote calls of request r that are pending settle, and its timers fire
ChargeSettles(r) == ChargeRejects(r) \/ ChargeFails(r) \/ ChargeSucceeds(r)
PersistSettles(r) == PersistResolves(r) \/ PersistRejects(r) \/ PersistLost(r)

\* at most one of the three is enabled for a request at a time: each belongs
\* to one position of the handler
Settles(r) == ChargeSettles(r) \/ PersistSettles(r) \/ PersistTimer(r)

Fairness == \A r \in Reqs : WF_vars(Settles(r))

SpecLive == Init /\ [][Next]_vars /\ Fairness

(***************************************************************************)
(* GET /client_token, one action per continuation of the handler.          *)
(***************************************************************************)
TokStep(r, f, settled) ==
  /\ tokFrame' = [tokFrame EXCEPT ![r] = f]
  /\ tokLog' = [tokLog EXCEPT ![r] = @ \o settled \o Slept(f) \o Invoked(f)]
  /\ tokPc' = [tokPc EXCEPT ![r] = OnToken(f).pc]
  /\ tokResponses' = [tokResponses EXCEPT ![r] = @ \o OnToken(f).respond]
  /\ UNCHANGED <<reqVars, rwVars>>

\* the request arrives: retryAsync(() => gateway.clientToken.generate({}), 3)
TokReceive(r) ==
  /\ tokPc[r] = "idle"
  /\ TokStep(r, RetryStart(CheckoutRetries, DefaultDelay), <<>>)

TokResolves(r) ==
  /\ tokPc[r] = "generating"
  /\ tokFrame[r].pc = "await_fn"
  /\ \E t \in TokenResponses :
       TokStep(r, RetryResolve(tokFrame[r], t), <<ResolveEv(t)>>)

TokRejects(r) ==
  /\ tokPc[r] = "generating"
  /\ tokFrame[r].pc = "await_fn"
  /\ \E e \in Errors :
       TokStep(r, RetryReject(tokFrame[r], e), <<RejectEv(e)>>)

TokTimer(r) ==
  /\ tokPc[r] = "generating"
  /\ tokFrame[r].pc = "await_delay"
  /\ TokStep(r, RetryTimer(tokFrame[r]), <<>>)

TokNext ==
  \E r \in Reqs : TokReceive(r) \/ TokResolves(r) \/ TokRejects(r) \/ TokTimer(r)

SpecToken == Init /\ [][TokNext]_vars

(***************************************************************************)
(* What the properties below read off the state.                           *)
(***************************************************************************)
\* a required field of the body is absent
Absent(b) == \E f \in Required : b[f] = Undefined

SaleCalls(r) ==
  Cardinality({j \in 1..Len(gatewayLog[r]) : gatewayLog[r][j].op = "sale"})

IsDbCall(x) == "op" \in DOMAIN x
DbCallIndexes(r) == {j \in 1..Len(dbLog[r]) : IsDbCall(dbLog[r][j])}
DbCalls(r) == Cardinality(DbCallIndexes(r))
DbSettled(r, how) ==
  \E j \in 1..Len(dbLog[r]) : ~IsDbCall(dbLog[r][j]) /\ dbLog[r][j].ev = how

ChargeSucceeded(r) == charge[r].kind = "resolve" /\ charge[r].success
ChargeDeclined(r) == charge[r].kind = "resolve" /\ ~charge[r].success
ChargeRaised(r) == charge[r].kind = "reject"

\* the macro-states of a request
StatePersisted(r) == pc[r] = "done" /\ ChargeSucceeded(r) /\ frame[r].pc = "returned"
StatePersistFailed(r) == pc[r] = "done" /\ ChargeSucceeded(r) /\ frame[r].pc = "thrown"

ContactSupport == "Payment processed but order creation failed. Please contact support."

(***************************************************************************)
(* C1: a checkout request in which a required field (name, email,          *)
(* shippingAddress, orderDetails, payment_method_nonce, amount) is absent  *)
(* is answered 400 "Missing required fields", and neither the charge nor   *)
(* the document-create operation is invoked for it.                        *)
(***************************************************************************)
C1_MissingFieldRejected ==
  \A r \in Reqs :
    (pc[r] # "idle" /\ Absent(body[r])) =>
      /\ pc[r] = "done"
      /\ responses[r] =
           <<[status |-> 400,
              body |-> [ok |-> FALSE, message |-> "Missing required fields"]]>>
      /\ gatewayLog[r] = <<>>
      /\ dbLog[r] = <<>>

C1_Witness ==
  \E r \in Reqs :
    /\ pc[r] = "done"
    /\ body[r].amount = Undefined
    /\ \A f \in Required \ {"amount"} : Truthy(body[r][f])
    /\ Len(responses[r]) = 1

(***************************************************************************)
(* C2: a valid request whose charge succeeded and whose document-create    *)
(* call failed on every attempt is answered 500 with the "contact support" *)
(* message and the charge's transactionId; the charge was invoked once and *)
(* document-create three times.                                            *)
(***************************************************************************)
C2_PersistFailedResponse ==
  \A r \in Reqs :
    (pc[r] = "done" /\ ChargeSucceeded(r) /\ ~DbSettled(r, "resolve")) =>
      /\ Len(responses[r]) = 1
      /\ responses[r][1].status = 500
      /\ responses[r][1].body.ok = FALSE
      /\ responses[r][1].body.message = ContactSupport
      /\ charge[r].transaction.present =>
           /\ "transactionId" \in DOMAIN responses[r][1].body
           /\ responses[r][1].body.transactionId = charge[r].transaction.id
      /\ SaleCalls(r) = 1
      /\ DbCalls(r) = 3

C2_Witness ==
  \E r \in Reqs :
    /\ pc[r] = "done"
    /\ charge[r] = Resolved(TRUE, Transaction("TX1", "submitted_for_settlement"))
    /\ ~DbSettled(r, "resolve")
    /\ DbCalls(r) = 3
    /\ responses[r][1].body.transactionId = "TX1"

(***************************************************************************)
(* C3: once a request is in PersistFailed (charge succeeded, persistence   *)
(* exhausted its attempts), the only call it ever made to the payment      *)
(* gateway is its one sale: no refund, void or second charge.              *)
(***************************************************************************)
C3_NoRollbackAfterPersistFailed ==
  \A r \in Reqs :
    StatePersistFailed(r) => gatewayLog[r] = <<SaleCall(body[r])>>

C3_Witness ==
  \E r \in Reqs : StatePersistFailed(r) /\ Len(gatewayLog[r]) = 1

(***************************************************************************)
(* C4: a valid request whose charge completes with success = false is      *)
(* answered 400 with the gateway's transaction status as message; no order *)
(* identifier is generated and document-create is never invoked.           *)
(***************************************************************************)
C4_DeclineIs400 ==
  \A r \in Reqs :
    (pc[r] = "done" /\ ChargeDeclined(r)) =>
      /\ Len(responses[r]) = 1
      /\ responses[r][1].status = 400
      /\ responses[r][1].body.ok = FALSE
      /\ charge[r].transaction.present =>
           responses[r][1].body.message = charge[r].transaction.status
      /\ orders[r] = <<>>
      /\ dbLog[r] = <<>>

(***************************************************************************)
(* C5: a valid request whose charge succeeded and whose document-create    *)
(* call succeeded on attempt 1, 2 or 3 is answered 200 with ok = true, the *)
(* orderId passed to document-create and the charge's transactionId.       *)
(***************************************************************************)
C5_SuccessResponse ==
  \A r \in Reqs :
    (pc[r] = "done" /\ ChargeSucceeded(r) /\ DbSettled(r, "resolve")) =>
      /\ DbCalls(r) \in 1..3
      /\ Len(responses[r]) = 1
      /\ responses[r][1].status = 200
      /\ responses[r][1].body.ok = TRUE
      /\ \A j \in DbCallIndexes(r) :
           responses[r][1].body.orderId = dbLog[r][j].documentId
      /\ charge[r].transaction.present =>
           /\ "transactionId" \in DOMAIN responses[r][1].body
           /\ responses[r][1].body.transactionId = charge[r].transaction.id

C5_Witness ==
  \E r \in Reqs :
    /\ pc[r] = "done"
    /\ charge[r] = Resolved(TRUE, Transaction("TX1", "submitted_for_settlement"))
    /\ DbSettled(r, "resolve")
    /\ DbCalls(r) = 3
    /\ responses[r][1].body.transactionId = "TX1"

C7_ChargeErrorResponse ==
  \A r \in Reqs :
    ChargeRaised(r) =>
      /\ responses[r] =
           <<[status |-> 500,
              body |-> [ok |-> FALSE, error |-> Message(charge[r].error)]]>>
      /\ charge[r].error = "TimeoutError" =>
           responses[r][1].body.error = "connect ETIMEDOUT"
      /\ orders[r] = <<>>
      /\ dbLog[r] = <<>>

C7_Witness ==
  \E r \in Reqs :
    /\ charge[r] = Rejected("TimeoutError")
    /\ pc[r] = "done"
    /\ responses[r][1].body.error = "connect ETIMEDOUT"

(***************************************************************************)
(* C8: every checkout request, whatever its body, its charge outcome and   *)
(* its persistence outcomes, produces exactly one structured response with *)
(* a success flag: never two, none while it can no longer move, and no     *)
(* error leaves the handler.                                               *)
(***************************************************************************)
C8_ExactlyOneResponse ==
  \A r \in Reqs :
    /\ escaped[r] = <<>>
    /\ Len(responses[r]) <= 1
    /\ pc[r] = "done" <=> Len(responses[r]) = 1
    /\ pc[r] # "done" => ENABLED ReqStep(r)
    /\ \A j \in 1..Len(responses[r]) :
         /\ responses[r][j].status \in {200, 400, 500}
         /\ "ok" \in DOMAIN responses[r][j].body
         /\ responses[r][j].body.ok \in BOOLEAN
         /\ responses[r][j].body.ok <=> responses[r][j].status = 200

C8_Witness ==
  /\ \A r \in Reqs : pc[r] = "done" /\ Len(responses[r]) = 1
  /\ \E r \in Reqs : responses[r][1].status = 500 /\ ChargeDeclined(r)
  /\ \E r \in Reqs : responses[r][1].status = 500 /\ StatePersistFailed(r)

(***************************************************************************)
(* What the retry harness's log says.                                      *)
(***************************************************************************)
RwEvents(kind) == {j \in 1..Len(rwLog) : rwLog[j].ev = kind}
RwCount(kind) == Cardinality(RwEvents(kind))

(***************************************************************************)
(* C9: for N >= 1, a delay D and an operation that fails k < N times and   *)
(* then succeeds, retryAsync returns the success value, invokes the        *)
(* operation k+1 times and waits k delays of length D, each between two    *)
(* consecutive attempts; nothing is invoked after the first success.       *)
(***************************************************************************)
C9_RetryReturnsFirstSuccess ==
  /\ rw.pc = "returned" =>
       LET k == RwCount("reject")
       IN  /\ rw.retries >= 1
           /\ k < rw.retries
           /\ RwCount("call") = k + 1
           /\ RwCount("delay") = k
           /\ Len(rwLog) = 3 * k + 2
           /\ \A a \in 1..k :
                /\ rwLog[3 * a - 2] = CallEv
                /\ rwLog[3 * a - 1].ev = "reject"
                /\ rwLog[3 * a] = DelayEv(rw.delay)
           /\ rwLog[3 * k + 1] = CallEv
           /\ rwLog[3 * k + 2] = ResolveEv(rw.value)
  /\ \A j \in RwEvents("resolve") : j = Len(rwLog) /\ rw.pc = "returned"

C9_Witness ==
  /\ rw.pc = "returned"
  /\ rw.retries = 3
  /\ rw.delay = 10
  /\ RwCount("reject") = 2
  /\ rw.value = "V2"

(***************************************************************************)
(* C10: for N >= 1 and an operation that fails on every attempt,           *)
(* retryAsync invokes it exactly N times and then throws the error of the  *)
(* N-th attempt itself, not that of an earlier attempt.                    *)
(***************************************************************************)
C10_RetryThrowsLastError ==
  (rw.pc = "thrown" /\ rw.retries >= 1) =>
    /\ RwCount("call") = rw.retries
    /\ RwCount("reject") = rw.retries
    /\ RwCount("resolve") = 0
    /\ rwLog[Len(rwLog)] = RejectEv(rw.value)

C10_Witness ==
  /\ rw.pc = "thrown"
  /\ rw.retries = 3
  /\ rw.value = "ResetError"
  /\ \A j \in RwEvents("reject") : j < Len(rwLog) => rwLog[j].e = "TimeoutError"

(***************************************************************************)
(* What a GET /client_token request's log says.                            *)
(***************************************************************************)
TokEvents(r, kind) == {j \in 1..Len(tokLog[r]) : tokLog[r][j].ev = kind}
TokCount(r, kind) == Cardinality(TokEvents(r, kind))

(***************************************************************************)
(* C11: GET /client_token answers 200 with ok = true and the generated     *)
(* clientToken when generation succeeds on any of up to 3 attempts, and    *)
(* 500 with ok = false, a message and the underlying error only after all  *)
(* 3 attempts have failed; it always produces exactly one response.        *)
(***************************************************************************)
C11_ClientTokenResponse ==
  \A r \in Reqs :
    /\ Len(tokResponses[r]) <= 1
    /\ tokPc[r] = "done" <=> Len(tokResponses[r]) = 1
    /\ TokCount(r, "call") <= 3
    /\ TokCount(r, "resolve") = 1 =>
         /\ tokLog[r][Len(tokLog[r])].ev = "resolve"
         /\ tokResponses[r] =
              <<[status |-> 200,
                 body |-> [ok |-> TRUE,
                           clientToken |-> tokLog[r][Len(tokLog[r])].v.clientToken]]>>
    /\ TokCount(r, "resolve") = 0 =>
         IF TokCount(r, "reject") = 3
           THEN tokResponses[r] =
                  <<[status |-> 500,
                     body |-> [ok |-> FALSE,
                               message |-> "Error generating client token",
                               error |-> Message(tokLog[r][Len(tokLog[r])].e)]]>>
           ELSE tokResponses[r] = <<>>

C11_Witness ==
  /\ \E r \in Reqs :
       /\ tokPc[r] = "done"
       /\ TokCount(r, "reject") = 2
       /\ tokResponses[r][1].status = 200
       /\ tokResponses[r][1].body.clientToken = "TOKEN-B"
  /\ \E r \in Reqs :
       /\ tokPc[r] = "done"
       /\ TokCount(r, "reject") = 3
       /\ tokResponses[r][1].status = 500
       /\ tokResponses[r][1].body.error = "socket hang up"

(***************************************************************************)
(* The macro-state of a request, and the moves between macro-states.       *)
(***************************************************************************)
MacroState(r) ==
  CASE pc[r] = "idle" -> "Received"
    [] pc[r] = "charging" -> "Charging"
    [] pc[r] = "persisting" -> "Persisting"
    [] pc[r] = "done" /\ charge[r].kind = "pending" -> "ValidationFailed"
    [] pc[r] = "done" /\ ChargeRaised(r) -> "ChargeError"
    [] pc[r] = "done" /\ ChargeDeclined(r) -> "Declined"
    [] pc[r] = "done" /\ ChargeSucceeded(r) /\ frame[r].pc = "returned" -> "Persisted"
    [] OTHER -> "PersistFailed"

Forward ==
  {<<"Received", "ValidationFailed">>, <<"Received", "Charging">>,
   <<"Charging", "Declined">>, <<"Charging", "ChargeError">>,
   <<"Charging", "Persisting">>,
   <<"Persisting", "Persisting">>, <<"Persisting", "Persisted">>,
   <<"Persisting", "PersistFailed">>}

Terminal == {"ValidationFailed", "ChargeError", "Declined", "Persisted", "PersistFailed"}

(***************************************************************************)
(* C12: a request only moves forward through Received -> Validating ->     *)
(* Charging -> {Declined | ChargeError | Persisting} -> {Persisted |       *)
(* PersistFailed}; document-create is invoked only after the charge of the *)
(* same request returned success, and from Persisting or a terminal state  *)
(* on the charge operation is never invoked again.                         *)
(***************************************************************************)
C12_ForwardOnly ==
  [][\A r \in Reqs :
       /\ MacroState(r)' # MacroState(r) => <<MacroState(r), MacroState(r)'>> \in Forward
       /\ MacroState(r) \in Terminal =>
            /\ MacroState(r)' = MacroState(r)
            /\ dbLog'[r] = dbLog[r]
       /\ MacroState(r) \in Terminal \cup {"Persisting"} => gatewayLog'[r] = gatewayLog[r]
       /\ dbLog'[r] # dbLog[r] =>
            /\ ChargeSucceeded(r)'
            /\ MacroState(r)' \in {"Persisting", "Persisted", "PersistFailed"}]_vars

C12_Witness ==
  \E r \in Reqs :
    /\ MacroState(r) = "PersistFailed"
    /\ DbCalls(r) = 3
    /\ SaleCalls(r) = 1

(***************************************************************************)
(* C13 as claimed: a charge that completes with a decline (success =       *)
(* false) is retried, the charge operation being invoked up to 3 times     *)
(* before the response.                                                    *)
(***************************************************************************)
C13_DeclineRetried ==
  \A r \in Reqs :
    (pc[r] = "done" /\ ChargeDeclined(r)) => SaleCalls(r) \in 2..3

(***************************************************************************)
(* C13 as amended: a charge that completes with a decline is not retried.  *)
(* The request is answered in the continuation that receives the decline,  *)
(* after exactly one invocation of the charge operation and no delay.      *)
(***************************************************************************)
C13_DeclineNotRetried ==
  \A r \in Reqs :
    ChargeDeclined(r) =>
      /\ pc[r] = "done"
      /\ gatewayLog[r] = <<SaleCall(body[r])>>
      /\ frame[r] = IdleFrame
      /\ Len(responses[r]) = 1

C13_Witness ==
  \E r \in Reqs :
    /\ charge[r] = Resolved(FALSE, Transaction("TX2", "processor_declined"))
    /\ pc[r] = "done"
    /\ SaleCalls(r) = 1
    /\ responses[r][1].body.message = "processor_declined"

(***************************************************************************)
(* C14: if every remote call settles and every delay elapses, a request    *)
(* that has arrived reaches a terminal state and is answered, after at     *)
(* most 3 charge attempts and at most 3 persistence attempts.              *)
(***************************************************************************)
C14_EventuallyAnswered ==
  /\ \A r \in Reqs :
       (pc[r] # "idle") ~>
         (MacroState(r) \in Terminal /\ Len(responses[r]) = 1)
  /\ [](\A r \in Reqs : SaleCalls(r) <= 3 /\ DbCalls(r) <= 3)

C14_Witness ==
  \E r \in Reqs :
    /\ MacroState(r) = "PersistFailed"
    /\ Len(responses[r]) = 1
    /\ DbCalls(r) = 3

(***************************************************************************)
(* The run of one request on its own, given what came in from outside:     *)
(* the body, the outcome of the sale, the clock and random readings, the   *)
(* settlements of its createDocument calls in order, and how many of its   *)
(* delays have elapsed.  It stops where the next input is missing.         *)
(***************************************************************************)
AloneStart ==
  [pc |-> "idle", responses |-> <<>>, gatewayLog |-> <<>>, escaped |-> <<>>,
   orders |-> <<>>, frame |-> IdleFrame, dbLog |-> <<>>]

AloneApply(st, eff) ==
  [st EXCEPT !.pc = eff.pc,
             !.responses = @ \o eff.respond,
             !.gatewayLog = @ \o eff.gateway,
             !.escaped = @ \o eff.escaped]

AloneCharge(st, b, o, draws) ==
  CASE o.kind = "pending" -> st
    [] o.kind = "reject" -> AloneApply(st, OnChargeError(o.error))
    [] o.kind = "resolve" /\ ~o.success -> AloneApply(st, OnChargeFailed(o))
    [] OTHER ->
         LET orderId == generateOrderId(draws[1].now, draws[1].frac)
             order == BuildOrder(b, orderId, ToISOString(draws[1].now), o)
             f == RetryStart(CheckoutRetries, DefaultDelay)
         IN  AloneApply([st EXCEPT !.orders = <<order>>,
                                   !.frame = f,
                                   !.dbLog = DbInvoked(f, order)],
                        OnPersist(f, orderId, TransactionId(o)))

RECURSIVE AlonePersist(_, _, _, _)
AlonePersist(st, o, settles, elapsed) ==
  LET order == st.orders[1]
      step(f, ev) ==
        AloneApply([st EXCEPT !.frame = f,
                              !.dbLog = @ \o ev \o DbInvoked(f, order)],
                   OnPersist(f, order.orderId, TransactionId(o)))
      settled(ev) ==
        IF ev.ev = "resolve" THEN RetryResolve(st.frame, ev.v)
                             ELSE RetryReject(st.frame, ev.e)
  IN  CASE st.pc # "persisting" -> st
        [] st.frame.pc = "await_fn" /\ settles # <<>> ->
             AlonePersist(step(settled(Head(settles)), <<Head(settles)>>),
                          o, Tail(settles), elapsed)
        [] st.frame.pc = "await_delay" /\ elapsed > 0 ->
             AlonePersist(step(RetryTimer(st.frame), <<>>), o, settles, elapsed - 1)
        [] OTHER -> st

Alone(b, o, draws, settles, elapsed) ==
  LET received == AloneApply(AloneStart, OnRequest(b))
      charged == IF received.pc = "charging"
                   THEN AloneCharge(received, b, o, draws) ELSE received
  IN  IF charged.pc = "persisting"
        THEN AlonePersist(charged, o, settles, elapsed) ELSE charged

\* what request r holds, and what has come in to it from outside so far
Local(r) ==
  [pc |-> pc[r], responses |-> responses[r], gatewayLog |-> gatewayLog[r],
   escaped |-> escaped[r], orders |-> orders[r], frame |-> frame[r],
   dbLog |-> dbLog[r]]
Settlements(r) == SelectSeq(dbLog[r], LAMBDA x : ~IsDbCall(x))
Elapsed(r) == IF DbCalls(r) > 0 THEN DbCalls(r) - 1 ELSE 0

(***************************************************************************)
(* C15: whatever the interleaving of the requests at their suspension      *)
(* points, each request's responses, its sale and createDocument calls,    *)
(* its retry frame and its order are those of the same request running     *)
(* alone with the same remote outcomes.                                    *)
(***************************************************************************)
C15_SameAsAlone ==
  \A r \in Reqs :
    Local(r) = IF pc[r] = "idle" THEN AloneStart
               ELSE Alone(body[r], charge[r], idDraws[r], Settlements(r), Elapsed(r))

C15_Witness ==
  \E r1, r2 \in Reqs :
    /\ r1 # r2
    /\ pc[r1] = "persisting" /\ frame[r1].pc = "await_delay"
    /\ pc[r2] = "persisting" /\ frame[r2].pc = "await_fn" /\ frame[r2].i >= 1
    /\ Len(responses[r1]) = 0 /\ Len(responses[r2]) = 0

\* the order of request r, once line 82 has built it, and what it was made of
Built(r) == orders[r] # <<>>
OrderIdOf(r) == orders[r][1].orderId
DrawOf(r) == idDraws[r][1]
RandomPart(frac) == Slice(RandomToString36(frac), 2, 7)
DistinctNonces(r1, r2) ==
  body[r1].payment_method_nonce # body[r2].payment_method_nonce

\* C16 as stated: two requests with distinct nonces whose charges succeed
\* never get the same orderId, and the random component has 5 characters
C16_DistinctOrderIds ==
  \A r1, r2 \in Reqs :
    (r1 # r2 /\ Built(r1) /\ Built(r2) /\ DistinctNonces(r1, r2)
       /\ ChargeSucceeded(r1) /\ ChargeSucceeded(r2))
      => /\ OrderIdOf(r1) # OrderIdOf(r2)
         /\ Len(RandomPart(DrawOf(r1).frac)) = 5

(***************************************************************************)
(* C16: the orderIds of two requests whose charges succeed are equal       *)
(* exactly when both read the same millisecond and drew random fractions   *)
(* with the same first five base-36 digits, whatever their nonces; an      *)
(* orderId is the upper-cased base-36 millisecond, "-", and at most five   *)
(* digits of the fraction.                                                 *)
(***************************************************************************)
C16_OrderIdsEqualOnSameDraw ==
  /\ \A r1, r2 \in Reqs :
       (r1 # r2 /\ Built(r1) /\ Built(r2)) =>
         (OrderIdOf(r1) = OrderIdOf(r2)
            <=> /\ DrawOf(r1).now = DrawOf(r2).now
                /\ RandomPart(DrawOf(r1).frac) = RandomPart(DrawOf(r2).frac))
  /\ \A r \in Reqs :
       Built(r) =>
         /\ ChargeSucceeded(r)
         /\ Len(RandomPart(DrawOf(r).frac)) <= 5
         /\ OrderIdOf(r) = ToUpperCase(ToString36(DrawOf(r).now) \o <<"-">>
                                         \o RandomPart(DrawOf(r).frac))

C16_Witness ==
  \E r1, r2 \in Reqs :
    /\ r1 # r2 /\ Built(r1) /\ Built(r2) /\ DistinctNonces(r1, r2)
    /\ pc[r1] = "persisting" /\ pc[r2] = "persisting"
    /\ OrderIdOf(r1) = OrderIdOf(r2)
    /\ Len(RandomPart(DrawOf(r1).frac)) < 5

\* the documents request r has put in the store
DocumentsOf(r) == {d \in store : d.owner = r}

(***************************************************************************)
(* C17: a request builds its orderId and order once, before its first      *)
(* createDocument call; every attempt sends that same id and payload; and  *)
(* the store, which refuses a create for an existing id, never holds more  *)
(* than one document of the request.                                       *)
(***************************************************************************)
C17_OneOrderPerRequest ==
  \A r \in Reqs :
    /\ Len(orders[r]) <= 1 /\ Len(idDraws[r]) = Len(orders[r])
    /\ DbCalls(r) > 0 => Built(r)
    /\ \A j \in DbCallIndexes(r) :
         dbLog[r][j] = CreateDocumentCall(OrderIdOf(r), orders[r][1])
    /\ Cardinality(DocumentsOf(r)) <= 1
    /\ \A d \in DocumentsOf(r) :
         d.documentId = OrderIdOf(r) /\ d.data = orders[r][1]

C17_Witness ==
  \E r \in Reqs :
    /\ DbCalls(r) = 3
    /\ MacroState(r) = "PersistFailed"
    /\ Cardinality(DocumentsOf(r)) = 1

\* the responses of request r that say ok = true
OkResponses(r) == {j \in 1..Len(responses[r]) : responses[r][j].body.ok}

(***************************************************************************)
(* C18: a response with ok = true has been sent only if the request's sale *)
(* returned success and the last thing its persistence did was a           *)
(* createDocument call for the returned orderId that resolved: retryAsync  *)
(* has returned, no attempt is pending, no delay is running, and the       *)
(* document is in the store.                                               *)
(***************************************************************************)
C18_OkOnlyAfterPersisted ==
  \A r \in Reqs : \A j \in OkResponses(r) :
    /\ ChargeSucceeded(r)
    /\ pc[r] = "done"
    /\ frame[r].pc = "returned"
    /\ Len(dbLog[r]) >= 2
    /\ dbLog[r][Len(dbLog[r])] = ResolveEv("document")
    /\ IsDbCall(dbLog[r][Len(dbLog[r]) - 1])
    /\ dbLog[r][Len(dbLog[r]) - 1].documentId = responses[r][j].body.orderId
    /\ \E d \in DocumentsOf(r) : d.documentId = responses[r][j].body.orderId

C18_Witness ==
  \E r \in Reqs :
    /\ OkResponses(r) = {1}
    /\ DbCalls(r) = 2
    /\ DbSettled(r, "reject")
    /\ \E q \in Reqs : q # r /\ MacroState(q) = "PersistFailed"

(***************************************************************************)
(* C19: retryAsync called with retries = 0 never invokes fn and never      *)
(* returns: the call throws at once, with no delay, and what it throws is  *)
(* undefined, the initial value of lastError, since nothing was caught and *)
(* no check of retries raises an error of its own.                         *)
(***************************************************************************)
C19_ZeroRetriesThrowsUndefined ==
  (rw.pc # "idle" /\ rw.retries = 0) =>
    /\ rw.pc = "thrown"
    /\ rw.value = Undefined
    /\ rw.lastError = Undefined
    /\ rw.i = 0
    /\ rwLog = <<>>

C19_Witness ==
  /\ rw.pc = "thrown"
  /\ rw.retries = 0
  /\ rw.delay = DefaultDelay
  /\ RwCount("call") = 0

====
